---- MODULE Spec2Model ----
(***************************************************************************)
(* AutoDocs: the generation pipeline.                                      *)
(*                                                                         *)
(* The client component Home (src/src/app/page.tsx, lines 261-551) holds   *)
(* the form and the session state and drives one request per selected      *)
(* document type through generateDocument; the endpoint POST               *)
(* (src/unnamed/part_000, lines 1-299) validates the request, checks the   *)
(* credential and calls the completion API.                                *)
(*                                                                         *)
(* Three specifications share the variables:                               *)
(*   Spec        the client alone; what the endpoint answers is an input.  *)
(*   SpecSystem  the client against POST: every answer the client gets is  *)
(*               computed by POST from the body the client sent.           *)
(*   SpecPOST    POST alone, called by any HTTP client with any body.      *)
(*                                                                         *)
(* JavaScript runs each handler and each continuation of an await to       *)
(* completion, so an action is a handler or the code between two awaits.   *)
(* React state setters are taken to act at once: Home reads its state only *)
(* through the closures of the render in which a handler was created, and  *)
(* the values a run needs are copied into the run's record at submission.  *)
(***************************************************************************)
EXTENDS Integers, Sequences, FiniteSets, TLC

VARIABLES
    description,        \* useState('')            page.tsx:278
    type,               \* useState('web')         page.tsx:279
    selectedDocs,       \* useState(new Set(...))  page.tsx:277
    documents,          \* useState({})            page.tsx:270
    generationErrors,   \* useState({})            page.tsx:274
    progress,           \* useState(0)             page.tsx:273
    isGenerating,       \* useState(false)         page.tsx:271
    isZipReady,         \* useState(false)         page.tsx:276
    error,              \* useState(null)          page.tsx:272
    runs,               \* the invocations of onSubmit that have not returned
    ended,              \* the locals of the invocation that returned last
    OPENAI_API_KEY,     \* process.env.OPENAI_API_KEY          part_000:13
    exchange,           \* the last invocation of POST: what it got and gave
    selectionOrder,     \* the insertion order of the Set selectedDocs
    isDownloading,      \* useState(false)         page.tsx:275
    zip,                \* the last call of createKnowledgeBaseZip
    downloadCall        \* the last call of handleDownload: what it read

vars == <<description, type, selectedDocs, documents, generationErrors,
          progress, isGenerating, isZipReady, error, runs, ended,
          OPENAI_API_KEY, exchange, selectionOrder, isDownloading, zip,
          downloadCall>>

form    == <<description, type, selectedDocs, selectionOrder>>
session == <<documents, generationErrors, progress, isGenerating, isZipReady,
             error, runs, ended>>
server  == <<OPENAI_API_KEY, exchange>>
bundle  == <<isDownloading, zip, downloadCall>>

---------------------------------------------------------------------------
(* Bounds of the model.                                                    *)

\* The model keeps the first NumDocTypes entries of DOCUMENT_TYPES.
NumDocTypes == 2

---------------------------------------------------------------------------
(* JavaScript values.                                                      *)

\* undefined (a field that is absent) and null.
Undefined == "\\undefined"
Null == "\\null"

\* A value that counts as true in `a || b` and `!a`.
Truthy(v) == v # Undefined /\ v # Null /\ v # ""

\* a || b
Or(a, b) == IF Truthy(a) THEN a ELSE b

RECURSIVE trimStart(_)
trimStart(s) ==
    IF s = "" THEN ""
    ELSE IF Head(s) = " " THEN trimStart(Tail(s)) ELSE s

RECURSIVE trimEnd(_)
trimEnd(s) ==
    IF s = "" THEN ""
    ELSE IF SubSeq(s, Len(s), Len(s)) = " "
         THEN trimEnd(SubSeq(s, 1, Len(s) - 1))
         ELSE s

\* String.prototype.trim
trim(s) == trimEnd(trimStart(s))

\* {[key]: value}: the new entry alone.
Spread_replaces(prev, key, value) == [k \in {key} |-> value]

\* The value written to every entry.
Spread_overwritesAll(prev, key, value) ==
    [k \in DOMAIN prev \cup {key} |-> value]

\* {...prev, [key]: value}
Spread(prev, key, value) ==
    [k \in DOMAIN prev \cup {key} |-> IF k = key THEN value ELSE prev[k]]

\* {}
EmptyObject == [k \in {} |-> ""]

---------------------------------------------------------------------------
(* The registry and the form's inputs.                                     *)

DOCUMENT_TYPES ==
    <<"prd", "appFlow", "techStack", "frontend", "backend", "cursorRules",
      "implementation", "bestPractices", "promptGuide">>

\* The registry the model runs with.
DocTypes == SubSeq(DOCUMENT_TYPES, 1, NumDocTypes)

DocKeys == {DocTypes[j] : j \in 1..Len(DocTypes)}

\* The options of the project-type select.
ProjectTypes == <<"web", "mobile", "desktop", "ai", "other">>

\* What the user types into the description: nothing, blanks only, a text
\* shorter than the endpoint's minimum, a text long enough.
Descriptions ==
    {"", "   ", "Todo app", "A task management web app for small teams"}

\* The project types the user picks in the model.
TypeChoices == {"web", "ai"}

---------------------------------------------------------------------------
(* HTTP answers as the client reads them.                                  *)

\* An answer: its status, whether its body parses as JSON, and the fields
\* of the parsed body that the client reads (absent ones are Undefined).
Response(status, content, err, message) ==
    [status |-> status, parses |-> TRUE, content |-> content,
     error |-> err, message |-> message]

\* An answer whose body is not JSON (a gateway's HTML error page).
NotJsonResponse(status) ==
    [status |-> status, parses |-> FALSE, content |-> Undefined,
     error |-> Undefined, message |-> Undefined]

NoResponse == [status |-> 0, parses |-> FALSE, content |-> Undefined,
               error |-> Undefined, message |-> Undefined]

\* response.ok
Ok(resp) == resp.status >= 200 /\ resp.status <= 299

\* The answers the endpoint gives in Spec, where the endpoint is an input:
\* content, empty content, an error without and with a message, no JSON.
Responses ==
    { Response(200, "# Generated document", Undefined, Undefined),
      Response(200, "", Undefined, Undefined),
      Response(400, Undefined, "Invalid request data", Undefined),
      Response(500, Undefined, "OpenAI API error", "Rate limit reached"),
      NotJsonResponse(502) }

\* The prompt DOCUMENT_PROMPTS[documentType](description, projectType) that
\* POST sends to the completion API: the template's name with the two values
\* it embeds.
Prompt(documentType, desc, projectType) ==
    [template |-> documentType, description |-> desc, type |-> projectType]

\* No prompt was sent.
NoCall == Prompt(Undefined, Undefined, Undefined)

---------------------------------------------------------------------------
(* generateDocument, page.tsx:300-341.                                     *)

Return(v) == [kind |-> "return", value |-> v]
Throw(name, message) == [kind |-> "throw", name |-> name, value |-> message]

AbortError == Throw("AbortError", "The user aborted a request.")
FetchTypeError == Throw("TypeError", "Failed to fetch")
JsonSyntaxError == Throw("SyntaxError", "Unexpected token < in JSON at position 0")

TimedOutMessage == "Request timed out. Please try again."

\* The request body, JSON.stringify({description, type, documentType}): the
\* project type travels under the name `type`, and no projectType is sent.
RequestBody(desc, ty, documentType) ==
    [description |-> desc, type |-> ty, projectType |-> Undefined,
     documentType |-> documentType]

\* A try block that returns data.content whatever it is.
ReadResponse_acceptsEmpty(resp) ==
    IF ~resp.parses THEN JsonSyntaxError
    ELSE IF ~Ok(resp)
         THEN Throw("Error",
                    Or(resp.message, Or(resp.error, "Failed to generate document")))
    ELSE Return(resp.content)

\* The try block after `await response.json()` has given `resp`'s body.
ReadResponse(resp) ==
    IF ~resp.parses THEN JsonSyntaxError
    ELSE IF ~Ok(resp)
         THEN Throw("Error",
                    Or(resp.message, Or(resp.error, "Failed to generate document")))
    ELSE IF ~Truthy(resp.content)
         THEN Throw("Error", "No content received from API")
    ELSE Return(resp.content)

\* A catch block that rethrows what it caught, whatever its name.
CatchBlock_rethrows(res) ==
    IF res.kind = "return" THEN res ELSE Throw("Error", res.value)

\* The catch block: what generateDocument throws for what was thrown inside.
CatchBlock(res) ==
    IF res.kind = "return" THEN res
    ELSE IF res.name = "AbortError" THEN Throw("Error", TimedOutMessage)
    ELSE Throw("Error", res.value)

\* A request in flight. phase "fetch": `await fetch(...)` is pending and the
\* 90 s timer is armed; "aborted": the timer has fired and called
\* controller.abort(), fetch is about to reject; "json": fetch has given the
\* response, the timer is cleared, `await response.json()` is pending.
\* response: the answer on its way (fetch) or received (json). served: the
\* endpoint has handled the request; call: the prompt it sent on to the
\* completion API for it.
NewRequest(body) ==
    [phase |-> "fetch", body |-> body, response |-> NoResponse,
     served |-> FALSE, call |-> NoCall]

---------------------------------------------------------------------------
(* onSubmit, page.tsx:343-394.                                             *)

\* useState(0) and setProgress((completed / total) * 100): the quotient is
\* kept as the fraction num/den, which orders as the floating-point value
\* does and equals 100 exactly when completed = total.
InitialProgress == [num |-> 0, den |-> 1]

\* The share still to do, published as the share done.
ProgressValue_remaining(completed, total) ==
    [num |-> (total - completed) * 100, den |-> total]

\* The count published as a share of the whole registry.
ProgressValue_ofRegistry(completed, total) ==
    [num |-> completed * 100, den |-> Len(DOCUMENT_TYPES)]

ProgressValue(completed, total) == [num |-> completed * 100, den |-> total]

\* a <= b for two progress values.
ProgressLeq(a, b) == a.num * b.den <= b.num * a.den

\* A loop over the whole registry, whatever is selected.
FilterSelected_all(sel) == DocTypes

\* The selected types from the registry's last entry to its first.
FilterSelected_reversed(sel) ==
    LET s == SelectSeq(DocTypes, LAMBDA k : k \in sel)
    IN [j \in 1..Len(s) |-> s[Len(s) + 1 - j]]

\* DOCUMENT_TYPES.filter(doc => selectedDocs.has(doc.key))
FilterSelected(sel) == SelectSeq(DocTypes, LAMBDA k : k \in sel)

\* A submit button that a run in progress does not disable.
SubmitDisabled_blankOnly == ~Truthy(trim(description))

\* The submit button's `disabled`.
SubmitDisabled == isGenerating \/ ~Truthy(trim(description))

\* A loop that stops at the first failure (`if (hasError) break`).
MoreToDo_breaksOnError(r) == ~r.hasErrors /\ r.i <= Len(r.selectedDocTypes)

\* The for-of loop has another element to visit.
MoreToDo(r) == r.i <= Len(r.selectedDocTypes)

\* A loop that does not await: it calls generateDocument for every document
\* type from r.i on.
NextToRequest_allRemaining(r) ==
    {r.selectedDocTypes[j] : j \in r.i..Len(r.selectedDocTypes)}

\* The document types whose generateDocument is called on entering
\* iteration r.i: the one at r.i, awaited before the loop goes on.
NextToRequest(r) == {r.selectedDocTypes[r.i]}

\* A bundle flag set whatever the run met.
ZipReady_ungated(r) == TRUE

\* setIsZipReady(!hasErrors)
ZipReady(r) == ~r.hasErrors

\* A counter stepped in the try block only, so on success only.
CountCompleted_successOnly(completed, ok) ==
    IF ok THEN completed + 1 ELSE completed

\* completedDocuments++, after the try/catch.
CountCompleted(completed, ok) == completed + 1

\* A loop that stays on a document type until it succeeds.
NextIndex_retryOnFailure(i, ok) == IF ok THEN i + 1 ELSE i

\* The for-of loop moves to the next element, whatever the iteration met.
NextIndex(i, ok) == i + 1

\* The locals of an invocation of onSubmit at the loop's entry.
NewRun(desc, ty, sel) ==
    [selectedDocs |-> sel,
     selectedDocTypes |-> FilterSelected(sel),
     totalDocuments |-> Len(FilterSelected(sel)),
     completedDocuments |-> 0,
     hasErrors |-> FALSE,
     i |-> 1,
     description |-> desc,
     type |-> ty,
     requested |-> <<>>,
     reqs |-> [k \in {} |-> NewRequest(RequestBody(desc, ty, ""))]]

NoRun == NewRun("", "", {})

RECURSIVE SeqOfSet(_)
SeqOfSet(S) ==
    IF S = {} THEN <<>>
    ELSE LET k == CHOOSE x \in S : TRUE IN <<k>> \o SeqOfSet(S \ {k})

\* The loop enters iteration r.i: generateDocument runs up to `await fetch`.
EnterIteration(r) ==
    LET ks == NextToRequest(r) IN
    [r EXCEPT
       !.requested = @ \o SeqOfSet(ks),
       !.reqs = [k \in DOMAIN r.reqs \cup ks |->
                    IF k \in ks
                    THEN NewRequest(RequestBody(r.description, r.type, k))
                    ELSE r.reqs[k]]]

\* A submission that leaves the bundle flag as the last run set it.
ZipReadyAtSubmit_kept == isZipReady

\* setIsZipReady(false)
ZipReadyAtSubmit == FALSE

\* A submission that leaves the results of the last run in place.
ResetResults_keeps(prev) == prev

\* setDocuments({}), setGenerationErrors({})
ResetResults(prev) == EmptyObject

RemoveAt(s, n) == SubSeq(s, 1, n - 1) \o SubSeq(s, n + 1, Len(s))

\* A handler whose resets come before its checks: a rejected submission
\* leaves the reset value.
OnRejection_afterReset(cur, reset) == reset

\* What a state holds after `setError(...); return;`: the checks come before
\* the resets, so the value it had.
OnRejection(cur, reset) == cur

\* The states a rejected submission passes through OnRejection.
Rejected(message) ==
    /\ error' = message
    /\ documents' = OnRejection(documents, EmptyObject)
    /\ generationErrors' = OnRejection(generationErrors, EmptyObject)
    /\ progress' = OnRejection(progress, InitialProgress)
    /\ isZipReady' = OnRejection(isZipReady, FALSE)
    /\ UNCHANGED <<isGenerating, runs, ended>>

onSubmit ==
    /\ ~SubmitDisabled
    /\ IF ~Truthy(trim(description))
       THEN Rejected("Description is required")
       ELSE IF Cardinality(selectedDocs) = 0
       THEN Rejected("Select at least one document to generate")
       ELSE /\ error' = Null
            /\ isGenerating' = TRUE
            /\ documents' = ResetResults(documents)
            /\ generationErrors' = ResetResults(generationErrors)
            /\ progress' = InitialProgress
            /\ isZipReady' = ZipReadyAtSubmit
            /\ runs' = Append(runs, EnterIteration(NewRun(description, type, selectedDocs)))
            /\ ended' = NoRun
    /\ UNCHANGED <<form, server, bundle>>

\* The loop body after `await generateDocument(docType.key)` has settled
\* with res for document type k, up to the next await or the return.
Resume(n, k, res) ==
    LET r == runs[n]
        ok == res.kind = "return"
        r1 == [r EXCEPT
                 !.hasErrors = r.hasErrors \/ ~ok,
                 !.completedDocuments = CountCompleted(@, ok),
                 !.i = NextIndex(@, ok),
                 !.reqs = [j \in DOMAIN r.reqs \ {k} |-> r.reqs[j]]]
    IN
    /\ documents' = IF ok THEN Spread(documents, k, res.value) ELSE documents
    /\ generationErrors' =
          IF ok THEN generationErrors ELSE Spread(generationErrors, k, res.value)
    /\ progress' = ProgressValue(r1.completedDocuments, r1.totalDocuments)
    /\ IF MoreToDo(r1)
       THEN /\ runs' = [runs EXCEPT ![n] = EnterIteration(r1)]
            /\ UNCHANGED <<isGenerating, isZipReady, error, ended>>
       ELSE /\ runs' = RemoveAt(runs, n)
            /\ isGenerating' = FALSE
            /\ isZipReady' = ZipReady(r1)
            /\ error' = IF r1.hasErrors
                        THEN "Some documents failed to generate. Check the errors below."
                        ELSE error
            /\ ended' = r1

---------------------------------------------------------------------------
(* The form's handlers, page.tsx:281-298 and 431, 449.                     *)

setDescription(d) ==
    /\ description' = d
    /\ UNCHANGED <<type, selectedDocs, selectionOrder, session, server, bundle>>

setType(t) ==
    /\ type' = t
    /\ UNCHANGED <<description, selectedDocs, selectionOrder, session, server, bundle>>

\* A JavaScript Set iterates in insertion order: selectedDocs holds the
\* members and selectionOrder the order Array.from(selectedDocs) gives.
\* Set.prototype.delete and Set.prototype.add on that order.
SetDelete(order, key) == SelectSeq(order, LAMBDA k : k # key)

SetAdd(order, key) ==
    IF \E j \in 1..Len(order) : order[j] = key THEN order
    ELSE Append(order, key)

handleSelectAll ==
    /\ selectedDocs' = DocKeys
    /\ selectionOrder' = DocTypes
    /\ UNCHANGED <<description, type, session, server, bundle>>

handleDeselectAll ==
    /\ selectedDocs' = {}
    /\ selectionOrder' = <<>>
    /\ UNCHANGED <<description, type, session, server, bundle>>

handleToggleDocument(docKey) ==
    /\ selectedDocs' = IF docKey \in selectedDocs
                       THEN selectedDocs \ {docKey}
                       ELSE selectedDocs \cup {docKey}
    /\ selectionOrder' = IF docKey \in selectedDocs
                         THEN SetDelete(selectionOrder, docKey)
                         ELSE SetAdd(selectionOrder, docKey)
    /\ UNCHANGED <<description, type, session, server, bundle>>

---------------------------------------------------------------------------
(* The awaits of generateDocument settle.                                  *)

InFlight(n, k) == n \in 1..Len(runs) /\ k \in DOMAIN runs[n].reqs

\* `await fetch` gives the response resp: clearTimeout, then
\* `await response.json()`.
FetchResolves(n, k, resp) ==
    /\ runs[n].reqs[k].phase = "fetch"
    /\ runs' = [runs EXCEPT ![n].reqs[k] =
                    [@ EXCEPT !.phase = "json", !.response = resp]]
    /\ UNCHANGED <<documents, generationErrors, progress, isGenerating,
                   isZipReady, error, ended, form, server, bundle>>

\* Spec: the endpoint answers, with any of Responses.
fetchAnswered ==
    \E n \in 1..Len(runs) : \E k \in DOMAIN runs[n].reqs :
        \E resp \in Responses :
            /\ ~runs[n].reqs[k].served
            /\ FetchResolves(n, k, resp)

\* The 90 s timer fires while fetch is pending: controller.abort().
timerFires ==
    \E n \in 1..Len(runs) : \E k \in DOMAIN runs[n].reqs :
        /\ runs[n].reqs[k].phase = "fetch"
        /\ runs' = [runs EXCEPT ![n].reqs[k].phase = "aborted"]
        /\ UNCHANGED <<documents, generationErrors, progress, isGenerating,
                       isZipReady, error, ended, form, server, bundle>>

\* The aborted fetch rejects with an AbortError.
fetchAborts ==
    \E n \in 1..Len(runs) : \E k \in DOMAIN runs[n].reqs :
        /\ runs[n].reqs[k].phase = "aborted"
        /\ Resume(n, k, CatchBlock(AbortError))
        /\ UNCHANGED <<form, server, bundle>>

\* fetch rejects: the network failed.
fetchFails ==
    \E n \in 1..Len(runs) : \E k \in DOMAIN runs[n].reqs :
        /\ runs[n].reqs[k].phase = "fetch"
        /\ Resume(n, k, CatchBlock(FetchTypeError))
        /\ UNCHANGED <<form, server, bundle>>

\* `await response.json()` settles and generateDocument returns or throws.
jsonSettles ==
    \E n \in 1..Len(runs) : \E k \in DOMAIN runs[n].reqs :
        /\ runs[n].reqs[k].phase = "json"
        /\ Resume(n, k, CatchBlock(ReadResponse(runs[n].reqs[k].response)))
        /\ UNCHANGED <<form, server, bundle>>

---------------------------------------------------------------------------
(* The bundle: utils/zip (DocumentViewer.tsx:109-176) and handleDownload,  *)
(* page.tsx:396-408.                                                       *)

\* documentFiles, in the order Object.entries gives: <<key, fileName>>.
documentFiles ==
    << <<"prd", "Project_Requirements.md">>,
       <<"appFlow", "Application_Flow.md">>,
       <<"techStack", "Technology_Stack.md">>,
       <<"frontend", "Frontend_Guidelines.md">>,
       <<"backend", "Backend_Structure.md">>,
       <<"cursorRules", "Cursor_Rules.md">>,
       <<"implementation", "Implementation_Plan.md">>,
       <<"bestPractices", "Best_Practices.md">>,
       <<"promptGuide", "Prompt_Guide.md">> >>

\* obj[key]
Get(obj, key) == IF key \in DOMAIN obj THEN obj[key] ELSE Undefined

\* A loop that files every key of documentFiles, with content or without.
FileAdded_always(content) == TRUE

\* `if (content)`: the file is added.
FileAdded(content) == Truthy(content)

\* The forEach over Object.entries(documentFiles) from entry j on:
\* knowledgeBase.file(fileName, content) sets the folder's entry fileName,
\* replacing one of that name.
RECURSIVE AddFiles(_, _, _)
AddFiles(files, docs, j) ==
    IF j > Len(documentFiles) THEN files
    ELSE LET content == Get(docs, documentFiles[j][1])
         IN AddFiles(IF FileAdded(content)
                     THEN Spread(files, documentFiles[j][2], content)
                     ELSE files,
                     docs, j + 1)

\* createKnowledgeBaseZip(docs): the mapping it was given, the folder it
\* made and the folder's files, name to content.
createKnowledgeBaseZip(docs) ==
    [documents |-> docs, folder |-> "Knowledge Base",
     files |-> AddFiles(EmptyObject, docs, 1)]

\* A folder whose files are entered without the separator.
EntryPath_noSeparator(folder, name) == folder \o name

\* The path of the file `name` of zip.folder(folder) in the archive.
EntryPath(folder, name) == folder \o "/" \o name

\* zip.generateAsync: the archive's file entries, path to content.
ArchiveEntries(z) ==
    [p \in {EntryPath(z.folder, n) : n \in DOMAIN z.files} |->
        z.files[CHOOSE n \in DOMAIN z.files : EntryPath(z.folder, n) = p]]

\* createKnowledgeBaseZip has not been called.
NoZip == [documents |-> EmptyObject, folder |-> Undefined, files |-> EmptyObject]

\* What a call of handleDownload read from Home's state.
DownloadCall(ready, generating, failed) ==
    [called |-> TRUE, isZipReady |-> ready, isGenerating |-> generating,
     failed |-> failed]

NoDownloadCall ==
    [called |-> FALSE, isZipReady |-> FALSE, isGenerating |-> FALSE,
     failed |-> {}]

\* A handler without the gate.
ReturnsEarly_never == FALSE

\* `if (!isZipReady) return`
ReturnsEarly == ~isZipReady

\* handleDownload up to `await zip.generateAsync` inside downloadZip. One
\* download at a time: the button is disabled while isDownloading. The
\* button's other two conditions (!isZipReady, isGenerating) are not taken
\* for granted: the handler runs in every state and its own gate decides.
handleDownload ==
    /\ ~isDownloading
    /\ downloadCall' = DownloadCall(isZipReady, isGenerating,
                                    DOMAIN generationErrors)
    /\ IF ReturnsEarly
       THEN UNCHANGED <<isDownloading, zip>>
       ELSE /\ isDownloading' = TRUE
            /\ zip' = createKnowledgeBaseZip(documents)
    /\ UNCHANGED <<form, session, server>>

\* downloadZip settles: it returned (ok) or threw; catch, finally.
downloadSettles ==
    \E ok \in BOOLEAN :
        /\ isDownloading
        /\ isDownloading' = FALSE
        /\ error' = IF ok THEN error
                    ELSE "Failed to download Knowledge Base ZIP file"
        /\ UNCHANGED <<documents, generationErrors, progress, isGenerating,
                       isZipReady, runs, ended, form, server, zip,
                       downloadCall>>

---------------------------------------------------------------------------
(* The endpoint POST, part_000:1-299.                                      *)

\* z.string().min(10)
MinDescriptionLength == 10

\* The keys of DOCUMENT_PROMPTS.
DOCUMENT_PROMPTS ==
    {"prd", "appFlow", "techStack", "frontend", "backend", "cursorRules",
     "implementation", "bestPractices", "promptGuide"}

\* The enum of requestSchema in the revision with eight document types.
SchemaDocumentTypes_eight ==
    {"prd", "appFlow", "techStack", "frontend", "backend", "cursorRules",
     "implementation", "bestPractices"}

\* z.enum([...]) of projectSchema.documentType
SchemaDocumentTypes ==
    {"prd", "appFlow", "techStack", "frontend", "backend", "cursorRules",
     "implementation", "bestPractices", "promptGuide"}

\* z.enum([...]) of projectSchema.projectType
SchemaProjectTypes == {"web", "mobile", "desktop", "ai", "other"}

\* A check that the fields are present, whatever they hold.
SchemaAccepts_presenceOnly(body) ==
    /\ Truthy(body.description)
    /\ Truthy(body.projectType)
    /\ Truthy(body.documentType)

\* projectSchema.parse(body) does not throw. `type` is no key of the schema.
SchemaAccepts(body) ==
    /\ body.description # Undefined
    /\ Len(body.description) >= MinDescriptionLength
    /\ body.projectType \in SchemaProjectTypes
    /\ body.documentType \in SchemaDocumentTypes

\* What openai.chat.completions.create does when called: a completion with
\* content, one without, an APIError with and without a status, another
\* error.
Completion(content) == [kind |-> "completion", content |-> content,
                        status |-> 0, message |-> Undefined]
UpstreamError(kind, status, message) ==
    [kind |-> kind, content |-> Undefined, status |-> status,
     message |-> message]

\* The call timed out: the client library's APIConnectionTimeoutError, an
\* APIError without a status.
UpstreamTimeout == UpstreamError("APIError", 0, "Request timed out.")

\* The completion API was not called.
NoUpstream == UpstreamError("none", 0, Undefined)

UpstreamOutcomes ==
    { Completion("# Generated document"),
      Completion(Null),
      UpstreamError("APIError", 429, "Rate limit reached"),
      UpstreamError("APIError", 0, "Connection error."),
      UpstreamTimeout,
      UpstreamError("Error", 0, "socket hang up") }

\* An endpoint that answers every upstream failure with 500.
StatusOr500_always500(status) == 500

\* error.status || 500
StatusOr500(status) == IF status # 0 THEN status ELSE 500

\* An endpoint without the credential check.
CredentialConfigured_unchecked(key) == TRUE

\* The credential check passes.
CredentialConfigured(key) == Truthy(key)

\* An endpoint that renders a prompt for whatever it is given and sends it.
POST_rendersUnknown(body, key, upstream) ==
    [response |-> Response(200, "# Generated document", Undefined, Undefined),
     call |-> Prompt(body.documentType, body.description, body.projectType)]

\* One invocation of POST on `body`, with the credential `key`, where the
\* completion API would do `upstream` if called: the answer, and the prompt
\* sent to the completion API (NoCall when none was sent).
POST(body, key, upstream) ==
    IF ~SchemaAccepts(body)
    THEN [response |-> Response(400, Undefined, "Invalid request data", Undefined),
          call |-> NoCall]
    ELSE IF ~CredentialConfigured(key)
    THEN [response |-> Response(500, Undefined, "OpenAI API key is not configured",
                                Undefined),
          call |-> NoCall]
    ELSE IF body.documentType \notin DOCUMENT_PROMPTS
    THEN [response |-> Response(400, Undefined, "Invalid document type", Undefined),
          call |-> NoCall]
    ELSE LET prompt == Prompt(body.documentType, body.description, body.projectType)
         IN
         IF upstream.kind = "completion"
         THEN [response |-> Response(200, Or(upstream.content, ""), Undefined,
                                     Undefined),
               call |-> prompt]
         ELSE IF upstream.kind = "APIError"
         THEN [response |-> Response(StatusOr500(upstream.status), Undefined,
                                     "OpenAI API error", upstream.message),
               call |-> prompt]
         ELSE [response |-> Response(500, Undefined, "Internal server error",
                                     upstream.message),
               call |-> prompt]

\* An invocation of POST as `exchange` keeps it: what it was given, what it
\* answered, the prompt it sent and what the completion API did with it.
Exchange(body, key, upstream, out) ==
    [body |-> body, key |-> key, response |-> out.response, call |-> out.call,
     upstream |-> IF out.call = NoCall THEN NoUpstream ELSE upstream]

NoExchange ==
    [body |-> RequestBody(Undefined, Undefined, Undefined), key |-> Undefined,
     response |-> NoResponse, call |-> NoCall, upstream |-> NoUpstream]

\* SpecSystem: POST handles the client's request; its answer is on its way.
postHandles ==
    \E n \in 1..Len(runs) : \E k \in DOMAIN runs[n].reqs :
        \E upstream \in UpstreamOutcomes :
            LET req == runs[n].reqs[k]
                out == POST(req.body, OPENAI_API_KEY, upstream)
            IN
            /\ req.phase \in {"fetch", "aborted"}
            /\ ~req.served
            /\ runs' = [runs EXCEPT ![n].reqs[k] =
                            [@ EXCEPT !.served = TRUE,
                                      !.response = out.response,
                                      !.call = out.call]]
            /\ UNCHANGED <<documents, generationErrors, progress, isGenerating,
                           isZipReady, error, ended, form, server, bundle>>

\* SpecSystem: POST's answer reaches the client.
fetchDelivered ==
    \E n \in 1..Len(runs) : \E k \in DOMAIN runs[n].reqs :
        /\ runs[n].reqs[k].served
        /\ FetchResolves(n, k, runs[n].reqs[k].response)

\* The bodies HTTP clients send in SpecPOST.
Bodies ==
    [description : {Undefined, "Todo app", "A task management web app for small teams"},
     type : {Undefined, "web"},
     projectType : {Undefined, "web", "server"},
     documentType : {Undefined, "prd", "promptGuide", "readme"}]

\* SpecPOST: an HTTP client calls the endpoint.
postCalled ==
    \E body \in Bodies : \E upstream \in UpstreamOutcomes :
        /\ exchange' = Exchange(body, OPENAI_API_KEY, upstream,
                                POST(body, OPENAI_API_KEY, upstream))
        /\ UNCHANGED <<form, session, OPENAI_API_KEY, bundle>>

---------------------------------------------------------------------------
(* The specifications.                                                     *)

\* The credentials of the model: none, or one.
Credentials == {Undefined, "sk-configured"}

InitClient ==
    /\ description = ""
    /\ type = "web"
    /\ selectedDocs = DocKeys
    /\ selectionOrder = DocTypes
    /\ documents = EmptyObject
    /\ generationErrors = EmptyObject
    /\ progress = InitialProgress
    /\ isGenerating = FALSE
    /\ isZipReady = FALSE
    /\ error = Null
    /\ runs = <<>>
    /\ ended = NoRun
    /\ isDownloading = FALSE
    /\ zip = NoZip
    /\ downloadCall = NoDownloadCall

Init ==
    /\ InitClient
    /\ OPENAI_API_KEY = "sk-configured"
    /\ exchange = NoExchange

InitSystem ==
    /\ InitClient
    /\ OPENAI_API_KEY \in Credentials
    /\ exchange = NoExchange

UserActs ==
    \/ \E d \in Descriptions : setDescription(d)
    \/ \E t \in TypeChoices : setType(t)
    \/ handleSelectAll
    \/ handleDeselectAll
    \/ \E k \in DocKeys : handleToggleDocument(k)
    \/ onSubmit

Next ==
    \/ UserActs
    \/ fetchAnswered
    \/ timerFires
    \/ fetchAborts
    \/ fetchFails
    \/ jsonSettles

NextSystem ==
    \/ UserActs
    \/ postHandles
    \/ fetchDelivered
    \/ timerFires
    \/ fetchAborts
    \/ fetchFails
    \/ jsonSettles

NextPOST == postCalled

\* The orders a Set of document types can be in: the sequences of distinct
\* keys.
SelectionOrders ==
    {s \in UNION {[1..m -> DocKeys] : m \in 0..NumDocTypes} :
        \A p, q \in 1..Len(s) : p # q => s[p] # s[q]}

\* Home with the form filled in: a description the submit button accepts and
\* any selection, in any order of ticking.
InitFilled ==
    /\ description \in {d \in Descriptions : Truthy(trim(d))}
    /\ type = "web"
    /\ selectionOrder \in SelectionOrders
    /\ selectedDocs = {selectionOrder[j] : j \in 1..Len(selectionOrder)}
    /\ documents = EmptyObject
    /\ generationErrors = EmptyObject
    /\ progress = InitialProgress
    /\ isGenerating = FALSE
    /\ isZipReady = FALSE
    /\ error = Null
    /\ runs = <<>>
    /\ ended = NoRun
    /\ isDownloading = FALSE
    /\ zip = NoZip
    /\ downloadCall = NoDownloadCall
    /\ OPENAI_API_KEY = "sk-configured"
    /\ exchange = NoExchange

\* The mappings createKnowledgeBaseZip is given: each key of documentFiles
\* absent, with empty content or with content, and a key that is none of
\* them.
ZipContents == {"", "# Generated document"}

ZipKeys == {documentFiles[j][1] : j \in 1..Len(documentFiles)}

Mappings ==
    UNION {[ks -> ZipContents] : ks \in SUBSET ZipKeys}
    \cup UNION {[ks \cup {"readme"} -> {"# Generated document"}] :
                   ks \in SUBSET {"prd", "promptGuide"}}

InitZip ==
    /\ documents \in Mappings
    /\ description = ""
    /\ type = "web"
    /\ selectedDocs = DocKeys
    /\ selectionOrder = DocTypes
    /\ generationErrors = EmptyObject
    /\ progress = InitialProgress
    /\ isGenerating = FALSE
    /\ isZipReady = FALSE
    /\ error = Null
    /\ runs = <<>>
    /\ ended = NoRun
    /\ isDownloading = FALSE
    /\ zip = NoZip
    /\ downloadCall = NoDownloadCall
    /\ OPENAI_API_KEY = "sk-configured"
    /\ exchange = NoExchange

\* SpecZip: createKnowledgeBaseZip is called with the mapping.
zipCreated ==
    /\ zip' = createKnowledgeBaseZip(documents)
    /\ UNCHANGED <<form, session, server, isDownloading, downloadCall>>

NextDownload ==
    \/ onSubmit
    \/ fetchAnswered
    \/ timerFires
    \/ fetchAborts
    \/ fetchFails
    \/ jsonSettles
    \/ handleDownload
    \/ downloadSettles

NextZip == zipCreated

\* A run and what its requests meet, the form left as it was submitted.
NextRun ==
    \/ onSubmit
    \/ fetchAnswered
    \/ timerFires
    \/ fetchAborts
    \/ fetchFails
    \/ jsonSettles

Spec == Init /\ [][Next]_vars

SpecDownload == InitFilled /\ [][NextDownload]_vars

SpecZip == InitZip /\ [][NextZip]_vars

\* What the code itself makes happen: the timer armed by setTimeout fires
\* unless cleared, and a fetch whose signal was aborted rejects. That an
\* answer or its body arrives is up to the network and the endpoint.
SpecLive ==
    /\ InitFilled
    /\ [][NextRun]_vars
    /\ WF_vars(timerFires)
    /\ WF_vars(fetchAborts)

SpecSystem == InitSystem /\ [][NextSystem]_vars

SpecPOST == InitSystem /\ [][NextPOST]_vars

---------------------------------------------------------------------------
(* The claims.                                                             *)

\* A run has returned and none is in progress.
Terminal == ~isGenerating /\ ended # NoRun

\* The document types with a recorded result.
Entries == DOMAIN documents \cup DOMAIN generationErrors

Range(seq) == {seq[j] : j \in 1..Len(seq)}

\* C1: once a run over N selected document types has returned, every type
\* that was selected at submission has exactly one result, a content in
\* documents or a message in generationErrors and not both, no other type has
\* one, so the results number N; and each selected type was requested once.
C1_OneResultPerSelectedType ==
    Terminal =>
        /\ Entries = ended.selectedDocs
        /\ DOMAIN documents \cap DOMAIN generationErrors = {}
        /\ Cardinality(DOMAIN documents) + Cardinality(DOMAIN generationErrors)
              = Cardinality(ended.selectedDocs)
        /\ Range(ended.requested) = ended.selectedDocs
        /\ Len(ended.requested) = Cardinality(ended.selectedDocs)

\* A run over two types has returned, with one content and one failure.
C1_Witness ==
    /\ Terminal
    /\ Cardinality(ended.selectedDocs) = 2
    /\ Cardinality(DOMAIN documents) = 1
    /\ Cardinality(DOMAIN generationErrors) = 1

\* C2: once a run has returned, isZipReady is true exactly when every type
\* selected at submission has a content and none has a failure.
C2_ZipReadyIffAllSucceeded ==
    Terminal =>
        (isZipReady <=>
            \A k \in ended.selectedDocs :
                k \in DOMAIN documents /\ k \notin DOMAIN generationErrors)

\* A run over two types has returned with both contents: the bundle is ready.
C2_Witness ==
    /\ Terminal
    /\ isZipReady
    /\ Cardinality(ended.selectedDocs) = 2
    /\ DOMAIN documents = ended.selectedDocs

\* C3: a run that has met a failure is either still in its loop, with the
\* request of the next selected type in flight and every type up to it
\* requested, or has returned after requesting every selected type, each of
\* which has its result.
C3_FailureNeverStopsLoop ==
    /\ \A n \in 1..Len(runs) :
          runs[n].hasErrors =>
              /\ runs[n].i <= Len(runs[n].selectedDocTypes)
              /\ runs[n].selectedDocTypes[runs[n].i] \in DOMAIN runs[n].reqs
              /\ runs[n].requested
                    = SubSeq(runs[n].selectedDocTypes, 1, runs[n].i)
    /\ (Terminal /\ ended.hasErrors) =>
          /\ ended.requested = ended.selectedDocTypes
          /\ Range(ended.selectedDocTypes) \subseteq Entries

\* A run has returned in which the first type failed and the second, requested
\* after it, has its content.
C3_Witness ==
    /\ Terminal
    /\ Len(ended.selectedDocTypes) >= 2
    /\ ended.selectedDocTypes[1] \in DOMAIN generationErrors
    /\ ended.selectedDocTypes[2] \in DOMAIN documents

\* C4: no step taken while a run is in progress lowers the published progress.
C4_ProgressNeverDecreases ==
    [][isGenerating => ProgressLeq(progress, progress')]_vars

\* A run is in progress with its progress strictly between 0 and 100.
C4_Witness ==
    /\ isGenerating
    /\ progress.num > 0
    /\ progress.num < 100 * progress.den

\* C5: once a run has returned, the published progress is N/N, 100, whatever
\* the results.
C5_ProgressIs100WhenTerminal ==
    Terminal =>
        /\ progress.num = 100 * progress.den
        /\ progress.den = Cardinality(ended.selectedDocs)

\* A run over two types has returned with both failed.
C5_Witness ==
    /\ Terminal
    /\ Cardinality(ended.selectedDocs) = 2
    /\ DOMAIN generationErrors = ended.selectedDocs

\* C6: when the request of a document type that its timer has aborted leaves
\* flight, that type, and no other, gets the timed-out message as its failure,
\* no content changes, and the loop goes on: the request of the next selected
\* type is in flight, or, after the last type, the run returns with every
\* selected type requested.
C6_TimeoutFailsOnlyThatType ==
    [][\A n \in 1..Len(runs) : \A k \in DOMAIN runs[n].reqs :
          ( /\ runs[n].reqs[k].phase = "aborted"
            /\ (Len(runs') < Len(runs) \/ k \notin DOMAIN runs'[n].reqs) )
          =>
          /\ generationErrors' = Spread(generationErrors, k, TimedOutMessage)
          /\ documents' = documents
          /\ IF runs[n].i < Len(runs[n].selectedDocTypes)
             THEN /\ Len(runs') = Len(runs)
                  /\ runs[n].selectedDocTypes[runs[n].i + 1]
                        \in DOMAIN runs'[n].reqs
                  /\ runs'[n].reqs[runs[n].selectedDocTypes[runs[n].i + 1]].phase
                        = "fetch"
             ELSE /\ ~isGenerating'
                  /\ ended'.requested = ended'.selectedDocTypes
      ]_vars

\* A run has returned in which the first type timed out and the second has
\* its content.
C6_Witness ==
    /\ Terminal
    /\ Len(ended.selectedDocTypes) >= 2
    /\ ended.selectedDocTypes[1] \in DOMAIN generationErrors
    /\ generationErrors[ended.selectedDocTypes[1]] = TimedOutMessage
    /\ ended.selectedDocTypes[2] \in DOMAIN documents
    /\ DOMAIN generationErrors = {ended.selectedDocTypes[1]}

\* The answer of the credential check.
ConfigurationError ==
    Response(500, Undefined, "OpenAI API key is not configured", Undefined)

\* C7, as claimed: with the credential absent, POST calls the completion API
\* for no request and answers every request with the configuration error.
C7_Original ==
    (exchange # NoExchange /\ ~Truthy(exchange.key)) =>
        /\ exchange.call = NoCall
        /\ exchange.response = ConfigurationError

\* C7, amended: with the credential absent, POST calls the completion API for
\* no request; it answers a request that passes validation with the
\* configuration error, and one that does not with status 400.
C7_NoCallWithoutCredential ==
    (exchange # NoExchange /\ ~Truthy(exchange.key)) =>
        /\ exchange.call = NoCall
        /\ IF SchemaAccepts(exchange.body)
           THEN exchange.response = ConfigurationError
           ELSE exchange.response.status = 400

\* POST has answered a valid request with the configuration error.
C7_Witness ==
    /\ exchange # NoExchange
    /\ ~Truthy(exchange.key)
    /\ SchemaAccepts(exchange.body)
    /\ exchange.response = ConfigurationError

\* C8, as claimed: with the credential absent, no run requests any document
\* type.
C8_NoRequestWithoutCredential ==
    ~Truthy(OPENAI_API_KEY) =>
        /\ \A n \in 1..Len(runs) : runs[n].requested = <<>>
        /\ ended.requested = <<>>

\* C9: at most one invocation of onSubmit is in its loop, and isGenerating
\* tells whether one is.
C9_OneSessionAtATime ==
    /\ Len(runs) <= 1
    /\ isGenerating <=> Len(runs) = 1

\* A run is in progress while the form holds a submission that onSubmit
\* would accept.
C9_Witness ==
    /\ isGenerating
    /\ Truthy(trim(description))
    /\ selectedDocs # {}
    /\ selectedDocs # runs[1].selectedDocs

\* C10: a run has at most one request in flight, that of the type its loop
\* is at, and every type requested before it has its result.
C10_OneRequestInFlight ==
    \A n \in 1..Len(runs) :
        /\ Cardinality(DOMAIN runs[n].reqs) <= 1
        /\ DOMAIN runs[n].reqs \subseteq {runs[n].selectedDocTypes[runs[n].i]}
        /\ \A j \in 1..(Len(runs[n].requested) - 1) :
              runs[n].requested[j] \in Entries

\* The second type's request is in flight and the first type has its result.
C10_Witness ==
    \E n \in 1..Len(runs) :
        /\ runs[n].i = 2
        /\ DOMAIN runs[n].reqs = {runs[n].selectedDocTypes[2]}
        /\ runs[n].selectedDocTypes[1] \in Entries

\* The place of document type k in the sequence seq (0 when it has none).
IndexOf(seq, k) ==
    IF \E j \in 1..Len(seq) : seq[j] = k
    THEN CHOOSE j \in 1..Len(seq) : seq[j] = k
    ELSE 0

\* seq lists document types in the order DOCUMENT_TYPES declares them.
RegistryOrdered(seq) ==
    \A p, q \in 1..Len(seq) :
        p < q => IndexOf(DocTypes, seq[p]) < IndexOf(DocTypes, seq[q])

\* C11, as claimed: a run that starts requests, and so records, the selected
\* types in the order in which the user selected them.
C11_Original ==
    [][Len(runs') > Len(runs) =>
          runs'[Len(runs')].selectedDocTypes = selectionOrder]_vars

\* C11, amended: a run requests and records the selected types in the order
\* in which DOCUMENT_TYPES declares them, whatever the order of selection: its
\* list is the registry's order of the selected set, the types requested are
\* the list up to the loop's place, and the types with a result are exactly
\* those before it.
C11_RegistryOrder ==
    /\ \A n \in 1..Len(runs) :
          /\ RegistryOrdered(runs[n].selectedDocTypes)
          /\ Range(runs[n].selectedDocTypes) = runs[n].selectedDocs
          /\ runs[n].requested = SubSeq(runs[n].selectedDocTypes, 1, runs[n].i)
          /\ Entries = Range(SubSeq(runs[n].selectedDocTypes, 1, runs[n].i - 1))
    /\ Terminal =>
          /\ RegistryOrdered(ended.requested)
          /\ ended.requested = ended.selectedDocTypes

\* The user selected appFlow and then prd; the run has prd's result while
\* appFlow's request is in flight.
C11_Witness ==
    \E n \in 1..Len(runs) :
        /\ Len(runs[n].selectedDocTypes) >= 2
        /\ runs[n].i = 2
        /\ Entries = {runs[n].selectedDocTypes[1]}
        /\ selectionOrder = <<runs[n].selectedDocTypes[2],
                              runs[n].selectedDocTypes[1]>>

\* C12: a step that assembles an archive or starts a download is taken
\* from a state where isZipReady is true, so with no run in progress and no
\* failure recorded; a call of handleDownload that read isZipReady as false
\* leaves the archive and isDownloading as they were. The step in which a run
\* returns starts from isGenerating, so it assembles nothing.
C12_BundleOnlyWhenReady ==
    [][/\ (zip' # zip \/ (isDownloading' /\ ~isDownloading)) =>
             /\ isZipReady
             /\ ~isGenerating
             /\ DOMAIN generationErrors = {}
             /\ zip' = createKnowledgeBaseZip(documents)
       /\ (downloadCall' # downloadCall /\ ~downloadCall'.isZipReady) =>
             /\ zip' = zip
             /\ isDownloading' = isDownloading
       /\ isZipReady => ~isGenerating
      ]_vars

\* handleDownload was called after a run that ended with a failure, read
\* isZipReady as false, and no archive has been made.
C12_Witness ==
    /\ downloadCall.called
    /\ ~downloadCall.isZipReady
    /\ ~downloadCall.isGenerating
    /\ downloadCall.failed # {}
    /\ Terminal
    /\ zip = NoZip
    /\ ~isDownloading

\* C13, as claimed: a run issues a document request only if it was submitted
\* with a description of at least 10 characters and at least one document
\* type selected.
C13_NoRequestForInvalidSubmission ==
    /\ \A n \in 1..Len(runs) :
          runs[n].requested # <<>> =>
              /\ Len(runs[n].description) >= 10
              /\ runs[n].selectedDocs # {}
    /\ ended.requested # <<>> =>
          /\ Len(ended.description) >= 10
          /\ ended.selectedDocs # {}

\* The fields of a POST body as the endpoint's contract lists them.
MalformedRequest(body) ==
    \/ body.description = Undefined
    \/ Len(body.description) < 10
    \/ body.projectType \notin {"web", "mobile", "desktop", "ai", "other"}
    \/ body.documentType \notin Range(DOCUMENT_TYPES)

\* C14: POST answers a request with a missing or malformed field with status
\* 400 and sends no prompt to the completion API for it, with the credential
\* configured or not.
C14_MalformedRequestIs400 ==
    (exchange # NoExchange /\ MalformedRequest(exchange.body)) =>
        /\ exchange.response.status = 400
        /\ exchange.call = NoCall
        /\ exchange.upstream = NoUpstream

\* With the credential configured, POST has answered 400 to a request whose
\* only fault is a description of 8 characters.
C14_Witness ==
    /\ exchange # NoExchange
    /\ Truthy(exchange.key)
    /\ exchange.body.description = "Todo app"
    /\ exchange.body.projectType = "web"
    /\ exchange.body.documentType = "prd"
    /\ exchange.response.status = 400
    /\ exchange.call = NoCall

\* The completion API failed or rejected the call POST made.
UpstreamFailed == exchange.upstream.kind \in {"APIError", "Error"}

EmptyAnswer(resp) == resp.parses /\ Ok(resp) /\ ~Truthy(resp.content)

\* C16: when the request of a document type that was answered with a success
\* without content leaves flight, the type gets a failure and no entry in
\* documents, and its run is marked as having failed, so that isZipReady is
\* false when the run returns; no entry of documents is ever empty, and
\* isZipReady is true only with a content for every selected type.
C16_EmptyContentIsFailure ==
    [][/\ \A n \in 1..Len(runs) : \A k \in DOMAIN runs[n].reqs :
             ( /\ runs[n].reqs[k].phase = "json"
               /\ EmptyAnswer(runs[n].reqs[k].response)
               /\ (Len(runs') < Len(runs) \/ k \notin DOMAIN runs'[n].reqs) )
             =>
             /\ k \in DOMAIN generationErrors'
             /\ generationErrors'[k] = "No content received from API"
             /\ k \notin DOMAIN documents'
             /\ IF Len(runs') = Len(runs)
                THEN runs'[n].hasErrors
                ELSE ended'.hasErrors /\ ~isZipReady'
       /\ \A k \in DOMAIN documents' : Truthy(documents'[k])
       /\ isZipReady' =>
             \A k \in ended'.selectedDocs :
                 k \in DOMAIN documents' /\ Truthy(documents'[k])
      ]_vars

\* A run over two types has returned: the first was answered without
\* content and is a failure, the second has its content, no bundle.
C16_Witness ==
    /\ Terminal
    /\ Len(ended.selectedDocTypes) = 2
    /\ DOMAIN generationErrors = {ended.selectedDocTypes[1]}
    /\ generationErrors[ended.selectedDocTypes[1]] = "No content received from API"
    /\ DOMAIN documents = {ended.selectedDocTypes[2]}
    /\ ~isZipReady

\* C17: POST answers a request whose documentType is none of the enumerated
\* identifiers with an error and sends nothing to the completion API for it;
\* every prompt it sends is the template of an enumerated identifier.
C17_UnknownTypeNeverSent ==
    exchange # NoExchange =>
        /\ exchange.body.documentType \notin Range(DOCUMENT_TYPES) =>
              /\ ~Ok(exchange.response)
              /\ Truthy(exchange.response.error)
              /\ exchange.call = NoCall
              /\ exchange.upstream = NoUpstream
        /\ exchange.call # NoCall =>
              exchange.call.template \in Range(DOCUMENT_TYPES)

\* With the credential configured, POST has refused a request that is well
\* formed but for its documentType, readme.
C17_Witness ==
    /\ exchange # NoExchange
    /\ Truthy(exchange.key)
    /\ exchange.body.documentType = "readme"
    /\ exchange.body.projectType = "web"
    /\ Len(exchange.body.description) >= 10
    /\ ~Ok(exchange.response)
    /\ exchange.call = NoCall

\* C18: every document type of DOCUMENT_TYPES, the types the form offers, is
\* in the schema's enumeration and has a template in DOCUMENT_PROMPTS, and
\* POST, given a well-formed request for one and the credential, renders that
\* type's template with the request's description and project type and
\* sends it.
C18_RegistryTotal ==
    /\ Range(DOCUMENT_TYPES) \subseteq SchemaDocumentTypes
    /\ Range(DOCUMENT_TYPES) \subseteq DOCUMENT_PROMPTS
    /\ (exchange # NoExchange /\ Truthy(exchange.key)
          /\ ~MalformedRequest(exchange.body)) =>
          /\ exchange.call = Prompt(exchange.body.documentType,
                                    exchange.body.description,
                                    exchange.body.projectType)
          /\ exchange.response.status # 400

\* POST has sent the prompt of the registry's last type, promptGuide.
C18_Witness ==
    /\ exchange # NoExchange
    /\ exchange.body.documentType = "promptGuide"
    /\ exchange.call.template = "promptGuide"
    /\ exchange.response.status = 200

NoDuplicates(seq) ==
    \A p, q \in 1..Len(seq) : p # q => seq[p] # seq[q]

KeysWithContent(docs) ==
    {k \in ZipKeys : k \in DOMAIN docs /\ docs[k] # ""}

\* C20: the archive createKnowledgeBaseZip makes of a mapping has the folder
\* Knowledge Base with, for each document type with content in the mapping,
\* the file of that type's name holding that content, as many files as there
\* are such types, and no other file; the names of distinct types differ.
C20_OneFilePerDocument ==
    /\ \A p, q \in 1..Len(documentFiles) :
          p # q => /\ documentFiles[p][1] # documentFiles[q][1]
                   /\ documentFiles[p][2] # documentFiles[q][2]
    /\ zip # NoZip =>
          /\ zip.folder = "Knowledge Base"
          /\ zip.documents = documents
          /\ Cardinality(DOMAIN zip.files)
                = Cardinality(KeysWithContent(zip.documents))
          /\ \A j \in 1..Len(documentFiles) :
                documentFiles[j][1] \in KeysWithContent(zip.documents) =>
                    /\ documentFiles[j][2] \in DOMAIN zip.files
                    /\ zip.files[documentFiles[j][2]]
                          = zip.documents[documentFiles[j][1]]
          /\ \A name \in DOMAIN zip.files :
                \E j \in 1..Len(documentFiles) :
                    /\ documentFiles[j][2] = name
                    /\ documentFiles[j][1] \in KeysWithContent(zip.documents)

\* The archive of a mapping with content for prd and techStack, an empty
\* content for appFlow and nothing else: two files.
C20_Witness ==
    /\ zip # NoZip
    /\ DOMAIN zip.documents = {"prd", "appFlow", "techStack"}
    /\ zip.documents["appFlow"] = ""
    /\ DOMAIN zip.files = {"Project_Requirements.md", "Technology_Stack.md"}

\* C21, as claimed: createKnowledgeBaseZip returns no archive for an empty
\* mapping.
C21_EmptyMappingFails ==
    DOMAIN documents = {} => zip = NoZip

\* Extracting an archive into a directory: the files of the folder
\* Knowledge Base, name to content.
Extract(entries) ==
    LET prefix == "Knowledge Base/"
        inFolder == {p \in DOMAIN entries :
                        /\ Len(p) > Len(prefix)
                        /\ SubSeq(p, 1, Len(prefix)) = prefix}
        NameOf(p) == SubSeq(p, Len(prefix) + 1, Len(p))
    IN [n \in {NameOf(p) : p \in inFolder} |->
           entries[CHOOSE p \in inFolder : NameOf(p) = n]]

\* The file name of a document type (Undefined when it has none).
FileNameOf(key) ==
    IF \E j \in 1..Len(documentFiles) : documentFiles[j][1] = key
    THEN documentFiles[CHOOSE j \in 1..Len(documentFiles) :
                           documentFiles[j][1] = key][2]
    ELSE Undefined

C23_ZipReadyOnlyWhenTerminal ==
    isZipReady =>
        /\ ~isGenerating
        /\ runs = <<>>
        /\ Terminal
        /\ ~ended.hasErrors

\* A run over two types is in progress: the first has its content, the
\* answer to the second is being read, no failure so far, and the flag is
\* false.
C23_Witness ==
    /\ isGenerating
    /\ ~isZipReady
    /\ DOMAIN generationErrors = {}
    /\ \E n \in 1..Len(runs) :
          /\ Len(runs[n].selectedDocTypes) = 2
          /\ DOMAIN documents = {runs[n].selectedDocTypes[1]}
          /\ \E k \in DOMAIN runs[n].reqs :
                /\ runs[n].reqs[k].phase = "json"
                /\ Truthy(runs[n].reqs[k].response.content)

\* C24: while a run is in progress, the published progress is the number of
\* document types with a recorded result, success or failure, over the number
\* of types selected at submission, as a percentage; and so it is once the
\* run has returned.
C24_ProgressIsCompletedOverTotal ==
    /\ \A n \in 1..Len(runs) :
          /\ progress.den * 100 * Cardinality(Entries)
                = progress.num * Cardinality(runs[n].selectedDocs)
          /\ Cardinality(Entries) = runs[n].completedDocuments
          /\ Cardinality(runs[n].selectedDocs) = runs[n].totalDocuments
    /\ Terminal =>
          progress.den * 100 * Cardinality(Entries)
             = progress.num * Cardinality(ended.selectedDocs)

\* A run over two types is in progress with one failure recorded and the
\* second request in flight: the progress is 50.
C24_Witness ==
    /\ isGenerating
    /\ Cardinality(DOMAIN generationErrors) = 1
    /\ DOMAIN documents = {}
    /\ progress.num = 50 * progress.den
    /\ \E n \in 1..Len(runs) : Cardinality(runs[n].selectedDocs) = 2

\* C25: a step taken while a run is in progress, which is never a submission,
\* keeps every entry of documents and of generationErrors as it is.
C25_ResultsAppendOnly ==
    [][isGenerating =>
          /\ \A k \in DOMAIN documents :
                k \in DOMAIN documents' /\ documents'[k] = documents[k]
          /\ \A k \in DOMAIN generationErrors :
                /\ k \in DOMAIN generationErrors'
                /\ generationErrors'[k] = generationErrors[k]
          /\ Len(runs') <= Len(runs)
      ]_vars

\* A run over two types has returned with both contents, the first recorded
\* before the second was requested.
C25_Witness ==
    /\ Terminal
    /\ Len(ended.requested) = 2
    /\ DOMAIN documents = Range(ended.requested)
    /\ DOMAIN generationErrors = {}
    /\ ended.completedDocuments = 2

\* C26: a step that records a failure adds the entry of one document type to
\* generationErrors, the type whose request was in flight, and changes no
\* other entry of generationErrors and nothing of documents.
C26_FailureTouchesOneEntry ==
    [][generationErrors' # generationErrors /\ isGenerating =>
          \E n \in 1..Len(runs) : \E k \in DOMAIN runs[n].reqs :
              /\ k \notin DOMAIN generationErrors
              /\ k \notin DOMAIN documents
              /\ DOMAIN generationErrors' = DOMAIN generationErrors \cup {k}
              /\ \A j \in DOMAIN generationErrors :
                    generationErrors'[j] = generationErrors[j]
              /\ documents' = documents
      ]_vars

\* A run over two types has returned: the first has its content, the second
\* failed, and the content of the first is still there.
C26_Witness ==
    /\ Terminal
    /\ Len(ended.selectedDocTypes) = 2
    /\ DOMAIN documents = {ended.selectedDocTypes[1]}
    /\ DOMAIN generationErrors = {ended.selectedDocTypes[2]}
    /\ Truthy(documents[ended.selectedDocTypes[1]])

\* C27: the step in which a submission is accepted leaves documents and
\* generationErrors empty, the progress 0 and isZipReady false, with the
\* run's first request issued and nothing completed; and after every step
\* the types with a result are exactly the types the run in progress has
\* requested and seen settle, so none comes from an earlier run.
C27_FreshSession ==
    [][/\ Len(runs') > Len(runs) =>
             /\ documents' = EmptyObject
             /\ generationErrors' = EmptyObject
             /\ progress'.num = 0
             /\ ~isZipReady'
             /\ isGenerating'
             /\ Len(runs'[Len(runs')].requested) = 1
             /\ runs'[Len(runs')].completedDocuments = 0
       /\ \A n \in 1..Len(runs') :
             DOMAIN documents' \cup DOMAIN generationErrors'
                = Range(runs'[n].requested) \ DOMAIN runs'[n].reqs
      ]_vars

\* A second run is at its first request after a run whose bundle was
\* assembled: the archive of the first exists, the results are empty.
C27_Witness ==
    /\ isGenerating
    /\ zip # NoZip
    /\ DOMAIN zip.files # {}
    /\ documents = EmptyObject
    /\ generationErrors = EmptyObject
    /\ progress.num = 0
    /\ ~isZipReady
    /\ \E n \in 1..Len(runs) : Len(runs[n].requested) = 1

\* C28, as claimed: every run in progress eventually returns, isGenerating
\* becoming false, on the strength of the per-request timer alone.
C28_EveryRunTerminates == isGenerating ~> ~isGenerating

\* C29, as claimed: a request that generateDocument sends with a description
\* of at least ten characters, a project type of the form and a document
\* type of the registry is not answered 400 by the endpoint's validation.
C29_ValidRequestPassesValidation ==
    \A n \in 1..Len(runs) : \A k \in DOMAIN runs[n].reqs :
        LET req == runs[n].reqs[k] IN
        (/\ req.served
         /\ Len(req.body.description) >= 10
         /\ req.body.type \in TypeChoices
         /\ req.body.documentType \in DocKeys)
            => req.response.status # 400

\* The messages of onSubmit's own checks.
RejectionMessages ==
    {"Description is required", "Select at least one document to generate"}

\* C30: a step in which onSubmit rejects the submission, the error becoming
\* one of its two messages, leaves documents, generationErrors, progress,
\* isZipReady and isGenerating as they were and starts no run.
C30_RejectionOnlySetsError ==
    [][(error' # error /\ error' \in RejectionMessages) =>
          UNCHANGED <<documents, generationErrors, progress, isZipReady,
                      isGenerating, runs>>
      ]_vars

\* A submission with nothing selected was rejected after a session that
\* ended with every document generated: its results and its bundle remain.
C30_Witness ==
    /\ error = "Select at least one document to generate"
    /\ selectedDocs = {}
    /\ ~isGenerating
    /\ isZipReady
    /\ DOMAIN documents # {}
    /\ progress.num = 100 * progress.den

====
